---- MODULE Spec2Model ----
(***************************************************************************)
(* Model of the zk command-line front door (main.go): the pre-scan of the  *)
(* --notebook-dir / --working-dir flags, the notebook search candidates,   *)
(* the alias dispatcher with its ZK_RUNNING_ALIAS guard, and the command   *)
(* dispatcher with its automatic reindex.                                  *)
(*                                                                         *)
(* A zk process is a record; `procs` is the chain of nested zk processes: *)
(* procs[1] is the invocation made by the user, procs[i+1] is the zk       *)
(* process started by the alias command that procs[i] is waiting for.      *)
(*                                                                         *)
(* Paths are sequences of names: <<"/tmp">> is the absolute path /tmp,     *)
(* <<"/cwd", "notes">> is /cwd/notes, <<"notes">> is the relative path     *)
(* notes and <<>> is the empty string.                                     *)
(***************************************************************************)
EXTENDS Integers, Sequences, FiniteSets, TLC

VARIABLES procs, aliases, notebookEnv, cwdOk

vars == <<procs, aliases, notebookEnv, cwdOk>>

\* ------------------------------------------------------------------ bounds
MaxArgs == 4
MaxMainArgs == 2
MaxDepth == 4

\* ------------------------------------------------------------ input values
NotebookFlag == "--notebook-dir"
WorkingFlags == {"--working-dir", "-W"}
RecognizedFlags == {NotebookFlag} \cup WorkingFlags

AbsTokens == {"/tmp", "/nb", "/env"}
DirsTokens == RecognizedFlags \cup {"/tmp", "notes", "new"}
MainTokens == {NotebookFlag, "-W", "/nb", "a", "list", "index"}
AliasNames == {"a", "list"}
Builtins == {"index", "list"}
EnvValues == {"", "/env", "nb"}
ExitCodes == {0, 1, 3}
MainEnvValues == {"/env"}

Cwd == <<"/cwd">>
NoPath == <<>>
NoErr == <<>>

SeqsUpTo(S, n) == UNION {[1..k -> S] : k \in 0..n}

\* ------------------------------------------------------------------- paths
IsAbsPath(p) == p # <<>> /\ (p[1] \in AbsTokens \/ p[1] = "/cwd")

\* filepath.Abs: an absolute argument is returned cleaned, a relative one is
\* joined to the current directory, which must be readable; "" and "." give
\* the current directory itself.
Abs(arg, wd, ok) ==
    IF arg \in AbsTokens THEN [path |-> <<arg>>, err |-> NoErr]
    ELSE IF ~ok THEN [path |-> NoPath, err |-> <<"getwd">>]
    ELSE IF arg \in {"", "."} THEN [path |-> wd, err |-> NoErr]
    ELSE [path |-> wd \o <<arg>>, err |-> NoErr]

\* The value of an environment variable, taken as it is.
RawPath(s) == IF s = "" THEN NoPath ELSE <<s>>

\* ---------------------------------------------------------------- parseDirs
\* A scan that keeps looking after the first value: the last occurrence wins.
RECURSIVE findFlagLoop_lastWins(_, _, _, _, _, _, _, _)
findFlagLoop_lastWins(long, short, args, i, foundFlag, newArgs, wd, ok) ==
    IF i > Len(args)
    THEN IF foundFlag # ""
         THEN [path |-> NoPath, args |-> newArgs, err |-> <<"missing", foundFlag>>]
         ELSE [path |-> NoPath, args |-> newArgs, err |-> NoErr]
    ELSE LET arg == args[i] IN
         IF arg = long \/ (short # "" /\ arg = short)
         THEN findFlagLoop_lastWins(long, short, args, i + 1, arg, newArgs, wd, ok)
         ELSE IF foundFlag # ""
         THEN LET a == Abs(arg, wd, ok)
                  r == findFlagLoop_lastWins(long, short, args, i + 1, "",
                                             newArgs, wd, ok)
              IN IF r.path # NoPath \/ r.err # NoErr THEN r
                 ELSE [path |-> a.path, args |-> r.args, err |-> a.err]
         ELSE findFlagLoop_lastWins(long, short, args, i + 1, foundFlag,
                                    Append(newArgs, arg), wd, ok)

\* A flag without a value is taken as absent.
RECURSIVE findFlagLoop_noMissing(_, _, _, _, _, _, _, _)
findFlagLoop_noMissing(long, short, args, i, foundFlag, newArgs, wd, ok) ==
    IF i > Len(args)
    THEN [path |-> NoPath, args |-> newArgs, err |-> NoErr]
    ELSE LET arg == args[i] IN
         IF arg = long \/ (short # "" /\ arg = short)
         THEN findFlagLoop_noMissing(long, short, args, i + 1, arg, newArgs, wd, ok)
         ELSE IF foundFlag # ""
         THEN LET a == Abs(arg, wd, ok) IN
              [path |-> a.path,
               args |-> newArgs \o SubSeq(args, i + 1, Len(args)),
               err |-> a.err]
         ELSE findFlagLoop_noMissing(long, short, args, i + 1, foundFlag,
                                     Append(newArgs, arg), wd, ok)

RECURSIVE findFlagLoop(_, _, _, _, _, _, _, _)
findFlagLoop(long, short, args, i, foundFlag, newArgs, wd, ok) ==
    IF i > Len(args)
    THEN IF foundFlag # ""
         THEN [path |-> NoPath, args |-> newArgs, err |-> <<"missing", foundFlag>>]
         ELSE [path |-> NoPath, args |-> newArgs, err |-> NoErr]
    ELSE LET arg == args[i] IN
         IF arg = long \/ (short # "" /\ arg = short)
         THEN findFlagLoop(long, short, args, i + 1, arg, newArgs, wd, ok)
         ELSE IF foundFlag # ""
         THEN LET a == Abs(arg, wd, ok) IN
              [path |-> a.path,
               args |-> newArgs \o SubSeq(args, i + 1, Len(args)),
               err |-> a.err]
         ELSE findFlagLoop(long, short, args, i + 1, foundFlag,
                           Append(newArgs, arg), wd, ok)

findFlag(long, short, args, wd, ok) ==
    findFlagLoop(long, short, args, 1, "", <<>>, wd, ok)

parseDirs(args, wd, ok) ==
    LET n == findFlag(NotebookFlag, "", args, wd, ok) IN
    IF n.err # NoErr
    THEN [d |-> [NotebookDir |-> n.path, WorkingDir |-> NoPath],
          args |-> n.args, err |-> n.err]
    ELSE LET w == findFlag("--working-dir", "-W", n.args, wd, ok) IN
         [d |-> [NotebookDir |-> n.path, WorkingDir |-> w.path],
          args |-> w.args, err |-> w.err]

\* ------------------------------------------------------- notebookSearchDirs
\* The working directory flag is ignored for the first candidate.
WdCandidate_ignoresFlag(dirs, wd) == [NotebookDir |-> wd, WorkingDir |-> wd]

WdCandidate(dirs, wd) ==
    LET w == IF dirs.WorkingDir = NoPath THEN wd ELSE dirs.WorkingDir IN
    [NotebookDir |-> w, WorkingDir |-> w]

EnvCandidate(dirs, env) ==
    [NotebookDir |-> RawPath(env.val),
     WorkingDir |-> IF dirs.WorkingDir = NoPath THEN RawPath(env.val)
                    ELSE dirs.WorkingDir]

\* The --notebook-dir candidate is followed by the other candidates.
notebookSearchDirs_noShortCircuit(dirs, wd, ok, env) ==
    IF ~ok THEN [dirs |-> <<>>, err |-> <<"getwd">>]
    ELSE [dirs |-> (IF dirs.NotebookDir # NoPath
                    THEN << [NotebookDir |-> dirs.NotebookDir,
                             WorkingDir |-> IF dirs.WorkingDir = NoPath THEN wd
                                            ELSE dirs.WorkingDir] >>
                    ELSE <<>>)
                   \o <<WdCandidate(dirs, wd)>>
                   \o (IF env.set THEN <<EnvCandidate(dirs, env)>> ELSE <<>>),
          err |-> NoErr]

\* The environment candidate is tried before the current directory.
notebookSearchDirs_envFirst(dirs, wd, ok, env) ==
    IF ~ok THEN [dirs |-> <<>>, err |-> <<"getwd">>]
    ELSE IF dirs.NotebookDir # NoPath
    THEN [dirs |-> << [NotebookDir |-> dirs.NotebookDir,
                       WorkingDir |-> IF dirs.WorkingDir = NoPath THEN wd
                                      ELSE dirs.WorkingDir] >>,
          err |-> NoErr]
    ELSE [dirs |-> (IF env.set THEN <<EnvCandidate(dirs, env)>> ELSE <<>>)
                   \o <<WdCandidate(dirs, wd)>>,
          err |-> NoErr]

notebookSearchDirs(dirs, wd, ok, env) ==
    IF ~ok THEN [dirs |-> <<>>, err |-> <<"getwd">>]
    ELSE IF dirs.NotebookDir # NoPath
    THEN [dirs |-> << [NotebookDir |-> dirs.NotebookDir,
                       WorkingDir |-> IF dirs.WorkingDir = NoPath THEN wd
                                      ELSE dirs.WorkingDir] >>,
          err |-> NoErr]
    ELSE [dirs |-> <<WdCandidate(dirs, wd)>>
                   \o (IF env.set THEN <<EnvCandidate(dirs, env)>> ELSE <<>>),
          err |-> NoErr]

\* ------------------------------------------------------------ zk processes
NewProc(args, guard, wd) ==
    [osArgs |-> args, args |-> args, guard0 |-> guard, guard |-> guard,
     wd |-> wd, pc |-> "parseDirs",
     dirs |-> [NotebookDir |-> NoPath, WorkingDir |-> NoPath],
     err |-> NoErr, searchDirs |-> <<>>, bound |-> 0,
     isAlias |-> FALSE, alias |-> "",
     child |-> [kind |-> "none", code |-> 0],
     command |-> "", reindex |-> "none", ran |-> FALSE,
     code |-> -1, diag |-> FALSE, failedAt |-> ""]

Top == procs[Len(procs)]
SetTop(p) == [procs EXCEPT ![Len(procs)] = p]

\* fatalIfError with a non-nil error: the diagnostic and os.Exit(1).
Fatal(p, e) ==
    [p EXCEPT !.err = e, !.diag = TRUE, !.code = 1, !.pc = "exit",
              !.failedAt = p.pc]

\* main, lines 105-106.
ParseDirs ==
    /\ Top.pc = "parseDirs"
    /\ LET r == parseDirs(Top.args, Top.wd, cwdOk)
           p == [Top EXCEPT !.dirs = r.d, !.args = r.args]
       IN procs' = SetTop(IF r.err # NoErr THEN Fatal(p, r.err)
                          ELSE [p EXCEPT !.pc = "searchDirs"])
    /\ UNCHANGED <<aliases, notebookEnv, cwdOk>>

\* main, lines 107-108.
NotebookSearchDirs ==
    /\ Top.pc = "searchDirs"
    /\ LET r == notebookSearchDirs(Top.dirs, Top.wd, cwdOk, notebookEnv)
           p == [Top EXCEPT !.searchDirs = r.dirs]
       IN procs' = SetTop(IF r.err # NoErr THEN Fatal(p, r.err)
                          ELSE [p EXCEPT !.pc = "bind"])
    /\ UNCHANGED <<aliases, notebookEnv, cwdOk>>

\* --------------------------------------------------- SetCurrentNotebook
\* The first candidate whose NotebookDir is one of the notebooks, 0 if none.
RECURSIVE FirstBindable(_, _, _)
FirstBindable(searchDirs, notebooks, i) ==
    IF i > Len(searchDirs) THEN 0
    ELSE IF searchDirs[i].NotebookDir \in notebooks THEN i
    ELSE FirstBindable(searchDirs, notebooks, i + 1)

\* main, lines 109-110.  Which directories hold a notebook is decided by the
\* file system.
SetCurrentNotebook ==
    /\ Top.pc = "bind"
    /\ \E notebooks \in SUBSET {Top.searchDirs[i].NotebookDir :
                                   i \in 1..Len(Top.searchDirs)},
          failed \in BOOLEAN :
          procs' = SetTop(
              IF failed THEN Fatal(Top, <<"bind">>)
              ELSE [Top EXCEPT !.bound = FirstBindable(Top.searchDirs, notebooks, 1),
                               !.pc = "runAlias"])
    /\ UNCHANGED <<aliases, notebookEnv, cwdOk>>

\* ------------------------------------------------------------------ runAlias
\* Every alias fires, whatever ZK_RUNNING_ALIAS holds.
AliasToRun_noGuard(p) ==
    IF Len(p.args) < 1 THEN ""
    ELSE IF p.args[1] \in DOMAIN aliases THEN p.args[1]
    ELSE ""

\* Lines 168-176: the alias runAlias executes, "" when it returns (false, nil).
AliasToRun(p) ==
    IF Len(p.args) < 1 THEN ""
    ELSE IF \E alias \in DOMAIN aliases :
                ~(alias = p.guard \/ alias # p.args[1])
    THEN p.args[1]
    ELSE ""

\* ZK_RUNNING_ALIAS is left as it was.
GuardFor_notSet(p, alias) == p.guard

\* Line 179: os.Setenv("ZK_RUNNING_ALIAS", alias).
GuardFor(p, alias) == alias

\* Lines 182-184: the directory the alias command runs in.
ChildWd(p) ==
    IF p.bound = 0 THEN p.wd
    ELSE LET path == p.searchDirs[p.bound].NotebookDir IN
         IF path = NoPath THEN p.wd
         ELSE IF IsAbsPath(path) THEN path
         ELSE p.wd \o path

\* exec.ExitError.ExitCode(): the exit code of a process that exited, -1 for
\* one a signal ended.
ExitCode(o) == IF o.kind = "signal" THEN -1 ELSE o.code

\* The status the parent of a process sees after os.Exit(n).
ExitStatus(n) == n % 256

\* Every failure of the child is returned as an error.
AfterRun_allErrors(p, o) ==
    IF o.kind = "exit" /\ o.code = 0
    THEN [p EXCEPT !.child = o, !.isAlias = TRUE, !.code = 0, !.pc = "exit"]
    ELSE [Fatal(p, <<"alias", o.kind>>) EXCEPT !.child = o, !.isAlias = TRUE]

\* Lines 190-199 and 113-114: the process after cmd.Run() returned o.
AfterRun(p, o) ==
    IF o.kind = "exit" /\ o.code = 0
    THEN [p EXCEPT !.child = o, !.isAlias = TRUE, !.code = 0, !.pc = "exit"]
    ELSE IF o.kind \in {"exit", "signal"}
    THEN [p EXCEPT !.child = o, !.code = ExitStatus(ExitCode(o)), !.pc = "exit"]
    ELSE [Fatal(p, <<"alias", o.kind>>) EXCEPT !.child = o, !.isAlias = TRUE]

Outcomes ==
    {[kind |-> "exit", code |-> c] : c \in ExitCodes}
    \cup {[kind |-> "signal", code |-> 0], [kind |-> "launch", code |-> 0]}

\* runAlias returns (false, nil): no argument, no alias of that name, or the
\* alias is the one ZK_RUNNING_ALIAS names.
RunAliasNone ==
    /\ Top.pc = "runAlias"
    /\ AliasToRun(Top) = ""
    /\ procs' = SetTop([Top EXCEPT !.pc = "parse"])
    /\ UNCHANGED <<aliases, notebookEnv, cwdOk>>

\* runAlias up to cmd.Run() of a command that invokes zk again: the child zk
\* process inherits the environment and gets the rest of the arguments.
RunAliasSpawn ==
    /\ Top.pc = "runAlias"
    /\ Len(procs) < MaxDepth
    /\ LET alias == AliasToRun(Top) IN
       /\ alias # ""
       /\ aliases[alias].kind = "zk"
       /\ procs' = Append(
              SetTop([Top EXCEPT !.guard = GuardFor(Top, alias),
                                 !.alias = alias, !.pc = "wait"]),
              NewProc(<<aliases[alias].target>> \o Tail(Top.args),
                      GuardFor(Top, alias), ChildWd(Top)))
    /\ UNCHANGED <<aliases, notebookEnv, cwdOk>>

\* runAlias with a command that does not invoke zk, or whose shell fails to
\* start or is ended by a signal.
RunAliasShell ==
    /\ Top.pc = "runAlias"
    /\ LET alias == AliasToRun(Top) IN
       /\ alias # ""
       /\ \E o \in Outcomes :
             /\ aliases[alias].kind = "zk" => o.kind # "exit"
             /\ procs' = SetTop(AfterRun(
                    [Top EXCEPT !.guard = GuardFor(Top, alias), !.alias = alias], o))
    /\ UNCHANGED <<aliases, notebookEnv, cwdOk>>

\* cmd.Run() returns in the parent when the child zk process has exited.
ChildReturn ==
    /\ Len(procs) > 1
    /\ Top.pc = "exit"
    /\ LET parent == procs[Len(procs) - 1]
           o == [kind |-> "exit", code |-> Top.code]
       IN procs' = [SubSeq(procs, 1, Len(procs) - 1)
                       EXCEPT ![Len(procs) - 1] = AfterRun(parent, o)]
    /\ UNCHANGED <<aliases, notebookEnv, cwdOk>>

\* ------------------------------------------------------- command dispatch
\* The command kong resolves: the global flags with their values are skipped,
\* no argument runs the default command, an unknown name is an error.
RECURSIVE KongCommand(_)
KongCommand(args) ==
    IF args = <<>> THEN "show-help"
    ELSE IF Head(args) \in RecognizedFlags
    THEN IF Len(args) >= 2 THEN KongCommand(SubSeq(args, 3, Len(args)))
         ELSE "error"
    ELSE IF Head(args) \in Builtins THEN Head(args)
    ELSE "error"

\* main, lines 116-119.  The rest of the command line may be rejected too.
KongParse ==
    /\ Top.pc = "parse"
    /\ \E r \in {"error", KongCommand(Top.args)} :
          procs' = SetTop(IF r = "error" THEN Fatal(Top, <<"parse">>)
                          ELSE [Top EXCEPT !.command = r, !.pc = "index"])
    /\ UNCHANGED <<aliases, notebookEnv, cwdOk>>

\* The notebook is indexed whatever the command is.
Reindexes_always(p) == p.bound # 0

\* Lines 123-124: not the index command, and there is a current notebook.
Reindexes(p) == p.command # "index" /\ p.bound # 0

\* main, lines 121-128: notebook.Index(false) and ctx.FatalIfErrorf.
IndexNotebook ==
    /\ Top.pc = "index"
    /\ IF Reindexes(Top)
       THEN \E ok \in BOOLEAN :
               procs' = SetTop(
                   IF ok THEN [Top EXCEPT !.reindex = "quiet", !.pc = "run"]
                   ELSE Fatal([Top EXCEPT !.reindex = "failed"], <<"index">>))
       ELSE procs' = SetTop([Top EXCEPT !.pc = "run"])
    /\ UNCHANGED <<aliases, notebookEnv, cwdOk>>

\* main, lines 130-132: ctx.Run and ctx.FatalIfErrorf.
RunCommand ==
    /\ Top.pc = "run"
    /\ \E ok \in BOOLEAN :
          procs' = SetTop(
              IF ok THEN [Top EXCEPT !.ran = TRUE, !.code = 0, !.pc = "exit"]
              ELSE Fatal([Top EXCEPT !.ran = TRUE], <<"run">>))
    /\ UNCHANGED <<aliases, notebookEnv, cwdOk>>

\* -------------------------------------------------------- specifications
Commands ==
    {[kind |-> "sh", target |-> ""]}
    \cup {[kind |-> "zk", target |-> n] : n \in AliasNames}

Init ==
    /\ \E a \in SeqsUpTo(MainTokens, MaxMainArgs) : procs = <<NewProc(a, "", Cwd)>>
    /\ aliases \in [AliasNames -> Commands]
    /\ notebookEnv \in {[set |-> FALSE, val |-> ""]}
                       \cup {[set |-> TRUE, val |-> v] : v \in MainEnvValues}
    /\ cwdOk \in BOOLEAN

Next ==
    \/ ParseDirs
    \/ NotebookSearchDirs
    \/ SetCurrentNotebook
    \/ RunAliasNone
    \/ RunAliasSpawn
    \/ RunAliasShell
    \/ ChildReturn
    \/ KongParse
    \/ IndexNotebook
    \/ RunCommand

Spec == Init /\ [][Next]_vars

EnvChoices == {[set |-> FALSE, val |-> ""]} \cup {[set |-> TRUE, val |-> v] : v \in EnvValues}

InitDirs ==
    /\ \E a \in SeqsUpTo(DirsTokens, MaxArgs) : procs = <<NewProc(a, "", Cwd)>>
    /\ aliases = [n \in AliasNames |-> [kind |-> "sh", target |-> ""]]
    /\ notebookEnv \in EnvChoices
    /\ cwdOk \in BOOLEAN

NextDirs == ParseDirs \/ NotebookSearchDirs

SpecDirs == InitDirs /\ [][NextDirs]_vars

\* ------------------------------------------------- vocabulary of the claims
ParsedOk(p) == p.pc # "parseDirs" /\ p.failedAt # "parseDirs"
Searched(p) == ParsedOk(p) /\ p.pc # "searchDirs" /\ p.failedAt # "searchDirs"

Min(S) == CHOOSE x \in S : \A y \in S : x <= y

HasToken(args, S) == \E i \in 1..Len(args) : args[i] \in S
FirstIdx(args, S) == Min({i \in 1..Len(args) : args[i] \in S})
Count(args, S) == Cardinality({i \in 1..Len(args) : args[i] \in S})

\* Every recognized flag token is a flag followed by a value, a token that is
\* not itself a recognized flag.
WellFormed(args) ==
    \A i \in 1..Len(args) : args[i] \in RecognizedFlags =>
        i < Len(args) /\ args[i + 1] \notin RecognizedFlags

\* args without the tokens at the positions in R, the others in their order.
RECURSIVE RemoveFrom(_, _, _)
RemoveFrom(args, R, i) ==
    IF i > Len(args) THEN <<>>
    ELSE (IF i \in R THEN <<>> ELSE <<args[i]>>) \o RemoveFrom(args, R, i + 1)
Remove(args, R) == RemoveFrom(args, R, 1)

\* The flag/value pair of the first occurrence of a flag of S, if any.
FirstPair(args, S) ==
    IF HasToken(args, S) THEN {FirstIdx(args, S), FirstIdx(args, S) + 1} ELSE {}

\* The directory the first occurrence of a flag of S names in a well-formed
\* argument list, empty when the flag is absent.
FirstValue(args, S, wd) ==
    IF HasToken(args, S) THEN Abs(args[FirstIdx(args, S) + 1], wd, TRUE).path
    ELSE NoPath

\* The value the --notebook-dir scan takes: the first token after the first
\* --notebook-dir that is not --notebook-dir again.
NotebookValueIdx(args) ==
    LET i == FirstIdx(args, {NotebookFlag})
        J == {j \in (i + 1)..Len(args) : args[j] # NotebookFlag}
    IN IF J = {} THEN 0 ELSE Min(J)

OrWd(path, wd) == IF path = NoPath THEN wd ELSE path

\* C1: with --notebook-dir X in the arguments, the search list is the single
\* candidate {abs(X), --working-dir value or the current directory}, whatever
\* ZK_NOTEBOOK_DIR and the other flags are.
C1_NotebookDirOnly ==
    \A k \in 1..Len(procs) : LET p == procs[k] IN
        (Searched(p) /\ HasToken(p.osArgs, {NotebookFlag})) =>
            /\ Len(p.searchDirs) = 1
            /\ p.searchDirs[1].NotebookDir =
                   Abs(p.osArgs[NotebookValueIdx(p.osArgs)], p.wd, TRUE).path
            /\ p.searchDirs[1].WorkingDir = OrWd(p.dirs.WorkingDir, p.wd)
            /\ WellFormed(p.osArgs) =>
                   p.searchDirs[1].WorkingDir =
                       OrWd(FirstValue(p.osArgs, WorkingFlags, p.wd), p.wd)

C1_Witness ==
    \E k \in 1..Len(procs) : LET p == procs[k] IN
        /\ Searched(p) /\ HasToken(p.osArgs, {NotebookFlag})
        /\ HasToken(p.osArgs, WorkingFlags) /\ WellFormed(p.osArgs)
        /\ notebookEnv.set /\ Len(p.searchDirs) = 1

\* C2: without --notebook-dir and with ZK_NOTEBOOK_DIR = Y, the search list is
\* the candidate {D, D} of the current directory first (D the --working-dir
\* value or the current directory), then {Y, --working-dir value or Y}.
C2_CwdThenEnv ==
    \A k \in 1..Len(procs) : LET p == procs[k] IN
        (Searched(p) /\ ~HasToken(p.osArgs, {NotebookFlag}) /\ notebookEnv.set) =>
            LET D == OrWd(p.dirs.WorkingDir, p.wd)
                Y == RawPath(notebookEnv.val)
            IN /\ p.searchDirs =
                      << [NotebookDir |-> D, WorkingDir |-> D],
                         [NotebookDir |-> Y,
                          WorkingDir |-> OrWd(p.dirs.WorkingDir, Y)] >>
               /\ WellFormed(p.osArgs) =>
                      D = OrWd(FirstValue(p.osArgs, WorkingFlags, p.wd), p.wd)

C2_Witness ==
    \E k \in 1..Len(procs) : LET p == procs[k] IN
        /\ Searched(p) /\ ~HasToken(p.osArgs, {NotebookFlag})
        /\ notebookEnv.set /\ notebookEnv.val = "nb"
        /\ HasToken(p.osArgs, WorkingFlags)
        /\ Len(p.searchDirs) = 2

\* C3, as claimed: without --notebook-dir and without ZK_NOTEBOOK_DIR, the
\* search list is the single candidate {cwd, cwd}, also when --working-dir or
\* -W is given.
C3_Original ==
    \A k \in 1..Len(procs) : LET p == procs[k] IN
        (Searched(p) /\ ~HasToken(p.osArgs, {NotebookFlag}) /\ ~notebookEnv.set) =>
            p.searchDirs = << [NotebookDir |-> p.wd, WorkingDir |-> p.wd] >>

\* C3, amended: without --notebook-dir and without ZK_NOTEBOOK_DIR, the search
\* list is the single candidate {D, D}, D being the --working-dir/-W value
\* when given and the current directory otherwise.
C3_WorkingDirOrCwd ==
    \A k \in 1..Len(procs) : LET p == procs[k] IN
        (Searched(p) /\ ~HasToken(p.osArgs, {NotebookFlag}) /\ ~notebookEnv.set) =>
            LET D == OrWd(p.dirs.WorkingDir, p.wd) IN
            /\ p.searchDirs = << [NotebookDir |-> D, WorkingDir |-> D] >>
            /\ ~HasToken(p.osArgs, WorkingFlags) => D = p.wd
            /\ WellFormed(p.osArgs) =>
                   D = OrWd(FirstValue(p.osArgs, WorkingFlags, p.wd), p.wd)

C3_Witness ==
    \E k \in 1..Len(procs) : LET p == procs[k] IN
        /\ Searched(p) /\ ~HasToken(p.osArgs, {NotebookFlag}) /\ ~notebookEnv.set
        /\ HasToken(p.osArgs, WorkingFlags)
        /\ p.searchDirs # << [NotebookDir |-> p.wd, WorkingDir |-> p.wd] >>

\* The flag/value pairs of args that account for a field of Dirs: none for an
\* empty field, else a flag of S at i whose next token resolves to the field.
FieldPairs(args, S, field, wd) ==
    IF field = NoPath THEN {0}
    ELSE {i \in 1..(Len(args) - 1) :
             args[i] \in S /\ Abs(args[i + 1], wd, TRUE).path = field}

PairOf(i) == IF i = 0 THEN {} ELSE {i, i + 1}

\* C6: when a recognized flag is followed by a value, parseDirs returns the
\* absolute form of the value in the matching field (empty when the flag is
\* absent) and the remaining arguments are the input without the matched flag
\* token and its value token, every other token kept in its order.
C6_FlagAndValueRemoved ==
    \A k \in 1..Len(procs) : LET p == procs[k] IN
        (/\ ParsedOk(p)
         /\ \E i \in 1..(Len(p.osArgs) - 1) :
               p.osArgs[i] \in RecognizedFlags
               /\ p.osArgs[i + 1] \notin RecognizedFlags) =>
            \E n \in FieldPairs(p.osArgs, {NotebookFlag}, p.dirs.NotebookDir, p.wd),
               w \in FieldPairs(p.osArgs, WorkingFlags, p.dirs.WorkingDir, p.wd) :
                /\ PairOf(n) \cap PairOf(w) = {}
                /\ p.args = Remove(p.osArgs, PairOf(n) \cup PairOf(w))

\* C10: when the same flag is given twice, each time with a value, parseDirs
\* returns the first value, removes the first flag/value pair only and leaves
\* the second occurrence in the remaining arguments.
C10_FirstWins ==
    \A k \in 1..Len(procs) : LET p == procs[k] IN
        \A S \in {{NotebookFlag}, WorkingFlags} :
            (ParsedOk(p) /\ WellFormed(p.osArgs) /\ Count(p.osArgs, S) >= 2) =>
                /\ (IF S = WorkingFlags THEN p.dirs.WorkingDir
                    ELSE p.dirs.NotebookDir) = FirstValue(p.osArgs, S, p.wd)
                /\ p.args = Remove(p.osArgs,
                                   FirstPair(p.osArgs, {NotebookFlag})
                                   \cup FirstPair(p.osArgs, WorkingFlags))
                /\ Count(p.args, S) = Count(p.osArgs, S) - 1

C10_Witness ==
    \E k \in 1..Len(procs) : LET p == procs[k] IN
        /\ ParsedOk(p) /\ WellFormed(p.osArgs)
        /\ Count(p.osArgs, WorkingFlags) = 2
        /\ p.osArgs[2] # p.osArgs[4]
        /\ Len(p.args) = 2

Last(args) == args[Len(args)]
FamilyOf(flag) == IF flag = NotebookFlag THEN {NotebookFlag} ELSE WorkingFlags
Intercepted(p) == p.alias # ""
Dispatching(p) == p.pc \in {"parse", "index", "run"}
                  \/ (p.pc = "exit" /\ p.failedAt \in {"", "parse", "index", "run"})

\* C4: an alias whose command invokes `zk <itself>` is intercepted by the
\* outer invocation, which sets ZK_RUNNING_ALIAS to it before the child
\* starts; the inner invocation inherits the guard, is not intercepted
\* (runAlias returns (false, nil)) and goes on to the normal dispatch, so the
\* nesting stops at depth 1.
C4_SelfRecursionGuard ==
    \A k \in 1..Len(procs) : LET p == procs[k] IN
        /\ (/\ p.pc \notin {"parseDirs", "searchDirs", "bind", "runAlias"}
            /\ p.failedAt \notin {"parseDirs", "searchDirs", "bind"}
            /\ Len(p.args) >= 1 /\ p.args[1] \in DOMAIN aliases
            /\ p.guard0 = p.args[1]) =>
               ~Intercepted(p) /\ ~p.isAlias /\ Dispatching(p)
        /\ k < Len(procs) =>
               /\ Intercepted(p) /\ p.guard = p.alias
               /\ procs[k + 1].guard0 = p.alias
               /\ aliases[p.alias].target = p.alias =>
                      ~Intercepted(procs[k + 1]) /\ k + 1 = Len(procs)

C4_Witness ==
    /\ Len(procs) = 2
    /\ procs[1].alias = "list" /\ aliases["list"].target = "list"
    /\ procs[1].guard = "list" /\ procs[2].guard0 = "list"
    /\ procs[2].args[1] = "list"
    /\ procs[2].pc = "run" /\ procs[2].command = "list"

\* The child of an intercepted alias has finished (or could not be started).
AliasDone(p) == Intercepted(p) /\ p.pc = "exit" /\ p.child.kind # "none"

LastTakenByNotebookDir(args) ==
    HasToken(args, {NotebookFlag}) /\ NotebookValueIdx(args) = Len(args)

\* An occurrence of the flag before the last token is followed by a token
\* that is not the flag.
EarlierValue(args, S) ==
    \E i \in 1..(Len(args) - 1) : args[i] \in S /\ args[i + 1] \notin S

MissingArgumentExit(p) ==
    /\ p.pc = "exit" /\ p.failedAt = "parseDirs"
    /\ p.code = 1 /\ p.diag
    /\ p.searchDirs = <<>> /\ p.bound = 0
    /\ ~Intercepted(p) /\ p.command = "" /\ p.reindex = "none" /\ ~p.ran

C8_Original ==
    \A i, j \in 1..Len(procs) :
        (i < j /\ Intercepted(procs[i]) /\ Intercepted(procs[j])) =>
            procs[i].alias # procs[j].alias

\* C8, amended: the guard stops the direct re-invocation only.  An alias is
\* never intercepted by the zk process its own command started, and when no
\* alias command invokes another alias at most one alias is intercepted; a
\* chain through other aliases (a -> `zk b`, b -> `zk a`) is not stopped,
\* because each interception overwrites the guard.
C8_DirectRecursionOnly ==
    /\ \A k \in 1..(Len(procs) - 1) :
           Intercepted(procs[k + 1]) => procs[k + 1].alias # procs[k].alias
    /\ (\A n \in DOMAIN aliases :
            aliases[n].kind = "zk" => aliases[n].target = n) =>
           Cardinality({k \in 1..Len(procs) : Intercepted(procs[k])}) <= 1

C8_Witness ==
    /\ Len(procs) >= 3
    /\ Intercepted(procs[1]) /\ Intercepted(procs[2]) /\ Intercepted(procs[3])
    /\ procs[1].alias = procs[3].alias
    /\ procs[2].alias # procs[1].alias

\* C9: without an alias, main parses the arguments and reindexes the
\* notebook, non-verbosely, before the handler exactly when the command is
\* not `index` and a notebook is bound; without a notebook the handler runs
\* all the same; a reindex error is fatal and the handler does not run; when
\* an alias fires there is neither reindex nor handler.
C9_ReindexBeforeHandler ==
    \A k \in 1..Len(procs) : LET p == procs[k] IN
        /\ Intercepted(p) =>
               (p.command = "" /\ p.reindex = "none" /\ ~p.ran)
        /\ p.pc \in {"parse", "index", "run"} => ~Intercepted(p) /\ ~p.isAlias
        /\ (p.command # "" /\ p.pc # "index") =>
               /\ p.reindex # "none" <=> (p.command # "index" /\ p.bound # 0)
               /\ p.reindex \in {"none", "quiet", "failed"}
        /\ p.pc \in {"parse", "index"} => (p.reindex = "none" /\ ~p.ran)
        /\ p.reindex = "failed" =>
               (p.pc = "exit" /\ p.code = 1 /\ p.diag /\ ~p.ran)
        /\ (p.pc = "exit" /\ p.command # "" /\ p.reindex # "failed") => p.ran
        /\ p.ran => (p.command # "" /\ p.reindex # "failed")

C9_Witness ==
    \E k \in 1..Len(procs) : LET p == procs[k] IN
        /\ p.command = "list" /\ p.bound # 0
        /\ p.reindex = "quiet" /\ p.ran /\ p.pc = "exit"

====
